---- MODULE Spec2Model ----
(***************************************************************************)
(* Texture analysis pipeline of TXM (core/texture_processor.py,            *)
(* core/texture_worker.py, core/texture_runner.py).                        *)
(*                                                                         *)
(* Python identifiers are kept, with Polish diacritics dropped.            *)
(* Python strings "" and None are modelled by the empty tuple; a hash      *)
(* digest or an optional integer that is present is a one-element tuple.   *)
(***************************************************************************)
EXTENDS Integers, Sequences, FiniteSets, TLC

VARIABLES
    api,                    \* entry point called: "runner" | "worker"
    folder_istnieje,        \* os.path.isdir(sciezka_folderu)
    callback,               \* behaviour of the caller's progress callback
    oiiotool_dostepny,      \* TextureProcessor.oiiotool_dostepny
    pliki_do_przetworzenia, \* the directory listing, in listing order
    pc,                     \* position of the orchestrating thread
    pliki_wedlug_rozszerzen,\* ordered dict: category -> list of paths
    metadane_plikow,        \* list of MetadanePliku
    stats_narzedzia,        \* tool statistics of the image-metadata stage
    canceled,               \* canceled[0] of TextureWorker.przetwarzaj_folder
    zdarzenia,              \* progress events delivered so far
    wyniki,                 \* TextureWorker.wyniki (the processor's result)
    wynik,                  \* what the called entry point returned
    zadania,                \* every task handed to a worker pool so far
    kursor,                 \* 1-based loop index of the orchestrating thread
                            \* inside a pool stage, 0 outside
    przetwarzanie_aktywne,  \* TextureWorker._przetwarzanie_aktywne
    callback_ukonczenia,    \* TextureWorker._callback_ukonczenia: 0 is None,
                            \* k the callback handed to the k-th started run
    watek_przetwarzania,    \* TextureWorker._watek_przetwarzania: 0 is None
    watki,                  \* every process_thread started so far
    kolejka_c4d,            \* functions queued by c4d.CallAsyncFunction
    wywolania_callbacku,    \* calls of completion callbacks made so far
    glowny,                 \* position of the main thread
    zwrot                   \* what the main thread's last call returned

vars == <<api, folder_istnieje, callback, oiiotool_dostepny, pliki_do_przetworzenia,
          pc, pliki_wedlug_rozszerzen, metadane_plikow, stats_narzedzia, canceled,
          zdarzenia, wyniki, wynik, zadania, kursor, przetwarzanie_aktywne,
          callback_ukonczenia, watek_przetwarzania, watki, kolejka_c4d,
          wywolania_callbacku, glowny, zwrot>>

----------------------------------------------------------------------------
(* Bounds of the model *)

MaxPlikow == 3          \* longest directory listing
MaxPlikowMeta == 2      \* longest listing when the backends' outcomes vary
MaxZadan == 3           \* longest listing when the pools' schedules vary

\* st_ctime values, in ticks of 1/TikiNaSekunde s: two fall in the same second
Czasy == {0, 1, 2}

(* Program constants *)

KrokWyszukiwania == 50      \* i % 50 in _znajdz_i_posortuj_pliki / _utworz_podstawowe_metadane
KrokGrupowania == 100       \* i % 100 in the two duplicate passes
KrokHash == 20              \* i % 20 in _oblicz_hashe
TikiNaSekunde == 2          \* st_ctime ticks per second of the "%S" field

None == <<>>
PustyNapis == <<>>

GRAFICZNE_ROZSZERZENIA ==
    {".jpg", ".jpeg", ".png", ".gif", ".bmp", ".tiff", ".tif", ".webp", ".svg",
     ".exr", ".hdr", ".tx", ".tga", ".psd", ".heic", ".heif", ".dds", ".ico",
     ".raw", ".cr2", ".nef"}

FORMATY_OIIOTOOL == {".exr", ".hdr", ".tx"}

Etapy == <<"wyszukiwanie", "metadane_podstawowe", "mozliwe_duplikaty", "hash",
           "dokladne_duplikaty", "metadane_graficzne", "zakonczono">>

NrEtapu(e) == CHOOSE k \in 1..Len(Etapy) : Etapy[k] = e

----------------------------------------------------------------------------
(* Generic helpers: Python list / dict idioms *)

Zakres(s) == {s[j] : j \in 1..Len(s)}

Odwzoruj(s, F(_)) == [j \in 1..Len(s) |-> F(s[j])]

RECURSIVE Sklej(_)
Sklej(ss) == IF ss = <<>> THEN <<>> ELSE Head(ss) \o Sklej(Tail(ss))

\* keys of a dict filled with "if k not in d: d[k] = []": first-seen order
RECURSIVE Unikalne(_)
Unikalne(s) ==
    IF s = <<>> THEN <<>>
    ELSE LET r == Unikalne(SubSeq(s, 1, Len(s) - 1))
             l == s[Len(s)]
         IN  IF l \in Zakres(r) THEN r ELSE Append(r, l)

\* d[k].append(v) for every <<k, v>> of pary, as an insertion-ordered dict
GrupujPary(pary) ==
    LET klucze == Unikalne([j \in 1..Len(pary) |-> pary[j][1]])
    IN  [g \in 1..Len(klucze) |->
            [klucz |-> klucze[g],
             lista |-> Odwzoruj(SelectSeq(pary, LAMBDA p : p[1] = klucze[g]),
                                LAMBDA p : p[2])]]

\* the loop indices i (0-based) at which a stage loop reports progress
IndeksyRaportu(n, krok) ==
    SelectSeq([j \in 1..n |-> j - 1], LAMBDA i : i % krok = 0 \/ i = n - 1)

----------------------------------------------------------------------------
(* Conversions *)

\* str.lower() on the extensions of the model's file universe
Lower(ext) ==
    CASE ext = ".PNG" -> ".png"
      [] ext = ".TXT" -> ".txt"
      [] OTHER -> ext

\* datetime.fromtimestamp(st_ctime).strftime("%Y-%m-%d %H:%M:%S"): whole seconds
strftime(t) == <<t \div TikiNaSekunde>>

\* datetime.strptime(s, "%Y-%m-%d %H:%M:%S"), as seconds
strptime(s) == s[1]

\* hashlib.sha256 over the file content (collision-free over the universe)
sha256(tresc) == <<"sha", tresc>>

\* f"{licznik_grup:02d}-o" / f"{licznik_grup:02d}-D{j+1}"
id_oryginalu(nr) == <<nr, "o", 0>>
\* mutant: the duplicate suffix numbered from 0
id_duplikatu_od_zera(nr, j) == <<nr, "D", j>>

id_duplikatu(nr, j) == <<nr, "D", j + 1>>

\* mutant: the whole group id is taken for the group number
NrGrupy_cale_id(id) == id

\* id_grupy.split("-")[0]
NrGrupy(id) == id[1]

----------------------------------------------------------------------------
(* Progress reporting and cancellation *)

Zdarzenie(etap, licznik, mianownik) ==
    [etap |-> etap, postep |-> <<licznik, mianownik>>]

\* what the caller's callback returns for an event: "True", "False", "None",
\* or "wyjatek" when it raises
callback_statusu(z) == IF z.etap = callback.etap THEN callback.wynik ELSE "True"

\* texture_runner.adapter_callback: an exception of the callback is swallowed
adapter_callback(z) ==
    IF callback_statusu(z) = "wyjatek" THEN "True" ELSE callback_statusu(z)

\* mutant: any falsy return value of the callback stops the run
obsluga_aktualizacji_statusu_falsy(z) ==
    LET w == IF api = "runner" THEN adapter_callback(z) ELSE callback_statusu(z)
    IN  IF w = "wyjatek" THEN "True"
        ELSE IF w \in {"False", "None"} THEN "False" ELSE "True"

\* TextureWorker._obsluga_aktualizacji_statusu: kontynuuj
obsluga_aktualizacji_statusu(z) ==
    LET w == IF api = "runner" THEN adapter_callback(z) ELSE callback_statusu(z)
    IN  IF w = "wyjatek" THEN "True"
        ELSE IF w = "False" THEN "False" ELSE "True"

\* callback_z_obsluga_anulowania over a run of events: the new canceled[0]
callback_z_obsluga_anulowania(c, nowe) ==
    c \/ \E j \in 1..Len(nowe) : obsluga_aktualizacji_statusu(nowe[j]) = "False"

----------------------------------------------------------------------------
(* Stage 1: discovery and classification *)

przetworz_plik(p) ==
    IF Lower(pliki_do_przetworzenia[p].ext) \in GRAFICZNE_ROZSZERZENIA
    THEN Lower(pliki_do_przetworzenia[p].ext)
    ELSE "pozostale"

znajdz_i_posortuj_pliki(lista) ==
    GrupujPary([p \in 1..Len(lista) |-> <<przetworz_plik(p), p>>])

ZdarzeniaWyszukiwania(n) ==
    Odwzoruj(IndeksyRaportu(n, KrokWyszukiwania),
             LAMBDA i : Zdarzenie("wyszukiwanie", i + 1, n))

(* Stage 2: base metadata *)

\* wszystkie_pliki: mutant that walks the categories from the last to the first
wszystkie_pliki_od_konca(wedlug) ==
    Sklej([g \in 1..Len(wedlug) |->
              Odwzoruj(wedlug[Len(wedlug) + 1 - g].lista,
                       LAMBDA p : <<p, wedlug[Len(wedlug) + 1 - g].klucz>>)])

\* the flattened (path, category) list
wszystkie_pliki(wedlug) ==
    Sklej([g \in 1..Len(wedlug) |->
              Odwzoruj(wedlug[g].lista, LAMBDA p : <<p, wedlug[g].klucz>>)])

MetadanePliku(p, rozszerzenie) ==
    [sciezka |-> p,
     rozszerzenie |-> rozszerzenie,
     data_utworzenia |-> strftime(pliki_do_przetworzenia[p].ctime),
     hash_sha256 |-> PustyNapis,
     szerokosc |-> None,
     wysokosc |-> None,
     flaga |-> "",
     id_grupy |-> PustyNapis,
     narzedzie_analizy |-> "",
     blad_analizy |-> {}]

\* mutant: a record is made for every discovered file, stat or no stat
utworz_podstawowe_metadane_bez_pomijania(wedlug) ==
    Odwzoruj(wszystkie_pliki(wedlug), LAMBDA a : MetadanePliku(a[1], a[2]))

\* os.stat raising yields None, which the collecting loop skips
utworz_podstawowe_metadane(wedlug) ==
    Odwzoruj(SelectSeq(wszystkie_pliki(wedlug),
                       LAMBDA a : pliki_do_przetworzenia[a[1]].stat),
             LAMBDA a : MetadanePliku(a[1], a[2]))

ZdarzeniaMetadanych(n) ==
    Odwzoruj(IndeksyRaportu(n, KrokWyszukiwania),
             LAMBDA i : Zdarzenie("metadane_podstawowe", i + 1, n))

----------------------------------------------------------------------------
(* Sorting a group of (index, meta) pairs by creation date: list.sort is stable *)

KluczSortowania(m, idx) == strptime(m[idx].data_utworzenia)

\* mutant: a sort that is not stable, equal keys come out in reverse order
Pozycja_niestabilna(m, grupa, j) ==
    1 + Cardinality({q \in 1..Len(grupa) :
          \/ KluczSortowania(m, grupa[q]) < KluczSortowania(m, grupa[j])
          \/ /\ KluczSortowania(m, grupa[q]) = KluczSortowania(m, grupa[j])
             /\ q > j})

Pozycja(m, grupa, j) ==
    1 + Cardinality({q \in 1..Len(grupa) :
          \/ KluczSortowania(m, grupa[q]) < KluczSortowania(m, grupa[j])
          \/ /\ KluczSortowania(m, grupa[q]) = KluczSortowania(m, grupa[j])
             /\ q < j})

\* mutant: the group is left in the order it was collected in
sort_data_utworzenia_bez_sortowania(m, grupa) == grupa

sort_data_utworzenia(m, grupa) ==
    [r \in 1..Len(grupa) |->
        grupa[CHOOSE j \in 1..Len(grupa) : Pozycja(m, grupa, j) = r]]

MiejsceW(s, x) == CHOOSE j \in 1..Len(s) : s[j] = x

----------------------------------------------------------------------------
(* Stage 3: name pass *)

\* mutant: stems are compared without regard to case
nazwa_bez_rozszerzenia_bez_wielkosci(meta) ==
    IF pliki_do_przetworzenia[meta.sciezka].nazwa = "A"
    THEN "a"
    ELSE pliki_do_przetworzenia[meta.sciezka].nazwa

nazwa_bez_rozszerzenia(meta) == pliki_do_przetworzenia[meta.sciezka].nazwa

grupy_plikow(m) ==
    GrupujPary([i \in 1..Len(m) |-> <<nazwa_bez_rozszerzenia(m[i]), i>>])

GrupaNazwy(m, i) ==
    LET g == grupy_plikow(m)
    IN  g[CHOOSE k \in 1..Len(g) : i \in Zakres(g[k].lista)].lista

oznacz_mozliwe_duplikaty(m) ==
    [i \in 1..Len(m) |->
        LET grupa == GrupaNazwy(m, i)
        IN  IF Len(grupa) > 1
            THEN IF sort_data_utworzenia(m, grupa)[1] = i
                 THEN [m[i] EXCEPT !.flaga = "oryginal"]
                 ELSE [m[i] EXCEPT !.flaga = "mozliwy duplikat"]
            ELSE m[i]]

\* mutant: the second half of the name pass reports (i + 1) / liczba_grup * 0.5
\* without the 0.5 the first half ended at
ZdarzeniaMozliwychDuplikatow_bez_przesuniecia(m) ==
    LET n == Len(m)
        g == Len(grupy_plikow(m))
    IN  Odwzoruj(IndeksyRaportu(n, KrokGrupowania),
                 LAMBDA i : Zdarzenie("mozliwe_duplikaty", i + 1, 2 * n))
        \o Odwzoruj(IndeksyRaportu(g, KrokWyszukiwania),
                    LAMBDA i : Zdarzenie("mozliwe_duplikaty", i + 1, 2 * g))

ZdarzeniaMozliwychDuplikatow(m) ==
    LET n == Len(m)
        g == Len(grupy_plikow(m))
    IN  Odwzoruj(IndeksyRaportu(n, KrokGrupowania),
                 LAMBDA i : Zdarzenie("mozliwe_duplikaty", i + 1, 2 * n))
        \o Odwzoruj(IndeksyRaportu(g, KrokWyszukiwania),
                    LAMBDA i : Zdarzenie("mozliwe_duplikaty", g + i + 1, 2 * g))

----------------------------------------------------------------------------
(* Stage 4: content hashes *)

\* mutant: a digest is produced even when the file cannot be read
oblicz_hash_pliku_bez_odczytu(meta) == sha256(pliki_do_przetworzenia[meta.sciezka].tresc)

oblicz_hash_pliku(meta) ==
    IF pliki_do_przetworzenia[meta.sciezka].odczyt
    THEN sha256(pliki_do_przetworzenia[meta.sciezka].tresc)
    ELSE PustyNapis

\* mutant: a record whose file cannot be read is dropped from the list
oblicz_hashe_bez_nieczytelnych(m) ==
    SelectSeq([i \in 1..Len(m) |-> [m[i] EXCEPT !.hash_sha256 = oblicz_hash_pliku(m[i])]],
              LAMBDA r : r.hash_sha256 # PustyNapis)

oblicz_hashe(m) ==
    [i \in 1..Len(m) |-> [m[i] EXCEPT !.hash_sha256 = oblicz_hash_pliku(m[i])]]

ZdarzeniaHash(n) ==
    Odwzoruj(IndeksyRaportu(n, KrokHash), LAMBDA i : Zdarzenie("hash", i + 1, n))

----------------------------------------------------------------------------
(* Stage 5: hash pass *)

\* mutant: records without a hash are grouped like the others
hash_wedlug_rozszerzen_z_pustymi(m) ==
    GrupujPary([i \in 1..Len(m) |-> <<m[i].rozszerzenie, i>>])

\* records with a hash, grouped by the rozszerzenie field
hash_wedlug_rozszerzen(m) ==
    GrupujPary(SelectSeq([i \in 1..Len(m) |-> <<m[i].rozszerzenie, i>>],
                         LAMBDA p : m[p[2]].hash_sha256 # PustyNapis))

\* the dict hashe of one extension
hashe(m, pliki) ==
    GrupujPary([j \in 1..Len(pliki) |-> <<m[pliki[j]].hash_sha256, pliki[j]>>])

\* every hash group in the order the loops visit them
GrupyHash(m) ==
    LET wedlug == hash_wedlug_rozszerzen(m)
    IN  Sklej([e \in 1..Len(wedlug) |->
                 Odwzoruj(hashe(m, wedlug[e].lista), LAMBDA h : h.lista)])

\* the groups with len(grupa) > 1; position = licznik_grup
GrupyDuplikatow(m) == SelectSeq(GrupyHash(m), LAMBDA grupa : Len(grupa) > 1)

\* mutant: the group id is written but the flag is not
OznaczOryginal_bez_flagi(meta, nr) ==
    [meta EXCEPT !.id_grupy = id_oryginalu(nr)]

\* metadane_plikow[org_idx].flaga / .id_grupy
OznaczOryginal(meta, nr) ==
    [meta EXCEPT !.flaga = "oryginal", !.id_grupy = id_oryginalu(nr)]

\* mutant: a flag set by the name pass is kept
OznaczDuplikat_zachowaj_flage(meta, nr, j) ==
    [meta EXCEPT !.flaga = IF @ = "" THEN "duplikat" ELSE @,
                 !.id_grupy = id_duplikatu(nr, j)]

\* metadane_plikow[dup_idx].flaga / .id_grupy, j the 0-based place in grupa[1:]
OznaczDuplikat(meta, nr, j) ==
    [meta EXCEPT !.flaga = "duplikat", !.id_grupy = id_duplikatu(nr, j)]

oznacz_dokladne_duplikaty(m) ==
    LET grupy == GrupyDuplikatow(m)
    IN  [i \in 1..Len(m) |->
            IF \E nr \in 1..Len(grupy) : i \in Zakres(grupy[nr])
            THEN LET nr == CHOOSE k \in 1..Len(grupy) : i \in Zakres(grupy[k])
                     grupa == sort_data_utworzenia(m, grupy[nr])
                 IN  IF grupa[1] = i
                     THEN OznaczOryginal(m[i], nr)
                     ELSE OznaczDuplikat(m[i], nr, MiejsceW(grupa, i) - 2)
            ELSE m[i]]

ZdarzeniaDokladnychDuplikatow(m) ==
    LET n == Len(m)
        l == Len(hash_wedlug_rozszerzen(m))
    IN  Odwzoruj(IndeksyRaportu(n, KrokGrupowania),
                 LAMBDA i : Zdarzenie("dokladne_duplikaty", 3 * (i + 1), 10 * n))
        \o [i \in 1..l |-> Zdarzenie("dokladne_duplikaty", 3 * l + 7 * i, 10 * l)]

----------------------------------------------------------------------------
(* Stage 6: image metadata, two backends *)

\* the (szerokosc, wysokosc) a backend reads from an image
Wymiary == <<64, 32>>

\* _pobierz_metadane_oiiotool: (metadane, narzedzie, blad); blad is the set of
\* backends the message names
pobierz_metadane_oiiotool(meta) ==
    IF pliki_do_przetworzenia[meta.sciezka].oiio = "ok"
    THEN <<Wymiary, "oiiotool", {}>>
    ELSE <<None, "blad", {"oiiotool"}>>

\* _pobierz_metadane_pil
pobierz_metadane_pil(meta) ==
    CASE pliki_do_przetworzenia[meta.sciezka].pil = "ok" -> <<Wymiary, "PIL", {}>>
      [] pliki_do_przetworzenia[meta.sciezka].pil = "brak" -> <<None, "brak", {"PIL"}>>
      [] OTHER -> <<None, "blad", {"PIL"}>>

\* mutant: no fallback to the generic decoder once the tool was tried
pobierz_metadane_graficzne_pliku_bez_zapasu(meta) ==
    IF meta.rozszerzenie = "pozostale"
    THEN <<None, "", {}>>
    ELSE IF oiiotool_dostepny
         THEN pobierz_metadane_oiiotool(meta)
         ELSE pobierz_metadane_pil(meta)

\* mutant: the generic decoder is preferred, the tool is the fallback
pobierz_metadane_graficzne_pliku_najpierw_pil(meta) ==
    IF meta.rozszerzenie = "pozostale"
    THEN <<None, "", {}>>
    ELSE IF pobierz_metadane_pil(meta)[1] # None \/ ~oiiotool_dostepny
         THEN pobierz_metadane_pil(meta)
         ELSE pobierz_metadane_oiiotool(meta)

\* the backends _pobierz_metadane_graficzne_pliku calls for a record, in order
wywolania(meta) ==
    IF meta.rozszerzenie = "pozostale"
    THEN <<>>
    ELSE (IF oiiotool_dostepny THEN <<"oiiotool">> ELSE <<>>)
         \o (IF oiiotool_dostepny /\ pobierz_metadane_oiiotool(meta)[1] # None
             THEN <<>>
             ELSE <<"PIL">>)

\* mutant: records of the bucket of other files are analysed like images
pobierz_metadane_graficzne_pliku_bez_pominiecia(meta) ==
    IF oiiotool_dostepny /\ pobierz_metadane_oiiotool(meta)[1] # None
    THEN pobierz_metadane_oiiotool(meta)
    ELSE pobierz_metadane_pil(meta)

pobierz_metadane_graficzne_pliku(meta) ==
    IF meta.rozszerzenie = "pozostale"
    THEN <<None, "", {}>>
    ELSE IF oiiotool_dostepny /\ pobierz_metadane_oiiotool(meta)[1] # None
         THEN pobierz_metadane_oiiotool(meta)
         ELSE pobierz_metadane_pil(meta)

\* the body of the as_completed loop for one future, on the record
ZbierzWynik(meta, w) ==
    IF w[1] # None
    THEN [meta EXCEPT !.szerokosc = <<w[1][1]>>,
                      !.wysokosc = <<w[1][2]>>,
                      !.narzedzie_analizy = w[2],
                      !.blad_analizy = IF w[3] # {} THEN w[3] ELSE @]
    ELSE meta

\* ... and on stats_narzedzia: stats_narzedzia["formaty_pil"] raises KeyError,
\* which the loop's except clause counts as an error
ZbierzStatystyki(st, w) ==
    IF w[1] # None
    THEN IF w[3] # {}
         THEN [st EXCEPT !.blad = @ + 1]
         ELSE IF w[2] = "oiiotool"
              THEN [st EXCEPT !.formaty_oiiotool_poprawnie = @ + 1]
              ELSE [st EXCEPT !.blad = @ + 1]
    ELSE st

RECURSIVE ZbierzWszystkie(_, _, _)
ZbierzWszystkie(st, m, i) ==
    IF i > Len(m) THEN st
    ELSE ZbierzWszystkie(ZbierzStatystyki(st, pobierz_metadane_graficzne_pliku(m[i])),
                         m, i + 1)

StatsPoczatkowe ==
    [oiiotool |-> 0, PIL |-> 0, brak |-> 0, blad |-> 0,
     formaty_oiiotool_poprawnie |-> 0, formaty_oiiotool_niepoprawnie |-> 0]

pobierz_metadane_graficzne(m) ==
    [i \in 1..Len(m) |-> ZbierzWynik(m[i], pobierz_metadane_graficzne_pliku(m[i]))]

----------------------------------------------------------------------------
(* Aggregation *)

Ile(m, P(_)) == Cardinality({i \in 1..Len(m) : P(m[i])})

generuj_statystyki(m, st) ==
    [liczba_plikow_ogolem |-> Len(m),
     liczba_plikow_graficznych |-> Ile(m, LAMBDA r : r.rozszerzenie # "pozostale"),
     liczba_pozostalych_plikow |-> Ile(m, LAMBDA r : r.rozszerzenie = "pozostale"),
     liczba_oryginalow |-> Ile(m, LAMBDA r : r.flaga = "oryginal"),
     liczba_duplikatow |-> Ile(m, LAMBDA r : r.flaga = "duplikat"),
     liczba_mozliwych_duplikatow |-> Ile(m, LAMBDA r : r.flaga = "mozliwy duplikat"),
     liczba_grup_duplikatow |->
         Cardinality({NrGrupy(m[i].id_grupy) :
                         i \in {j \in 1..Len(m) : m[j].id_grupy # PustyNapis}}),
     rozszerzenia |->
         [e \in {m[i].rozszerzenie : i \in 1..Len(m)} |->
             Ile(m, LAMBDA r : r.rozszerzenie = e)],
     narzedzia_analizy |-> st,
     liczba_plikow_specjalistycznych |->
         Ile(m, LAMBDA r : Lower(r.rozszerzenie) \in FORMATY_OIIOTOOL),
     rozszerzenia_z_bledami |->
         [e \in {m[i].rozszerzenie :
                    i \in {j \in 1..Len(m) : m[j].narzedzie_analizy = "blad"}} |->
             Ile(m, LAMBDA r : r.rozszerzenie = e /\ r.narzedzie_analizy = "blad")]]

\* a Python dict returned to a caller; absent keys: sukces = "brak", ma_pliki = FALSE
BrakWyniku ==
    [wyjatek |-> FALSE, sukces |-> "brak", komunikat |-> "",
     ma_pliki |-> FALSE, pliki |-> <<>>, statystyki |-> <<>>,
     sciezki_raportow |-> "brak"]

WynikiAnalizy(m, st) ==
    [BrakWyniku EXCEPT !.ma_pliki = TRUE, !.pliki = m,
                       !.statystyki = <<generuj_statystyki(m, st)>>]

Niepowodzenie(komunikat) ==
    [BrakWyniku EXCEPT !.sukces = "False", !.komunikat = komunikat]

----------------------------------------------------------------------------
(* The pipeline, one action per stage of TextureProcessor.przetwarzaj_folder *)

\* _raportuj_status for a run of events: the callback's verdict is dropped by
\* the processor; only the worker's wrapper remembers it in canceled[0]
Raportuj(nowe) ==
    /\ zdarzenia' = zdarzenia \o nowe
    /\ canceled' = callback_z_obsluga_anulowania(canceled, nowe)

\* the state of przetwarzaj_folder_async, which a synchronous call leaves alone
Asynchroniczne == <<przetwarzanie_aktywne, callback_ukonczenia, watek_przetwarzania,
                    watki, kolejka_c4d, wywolania_callbacku, glowny, zwrot>>

\* what no step of a synchronous call changes
Wejscia == <<api, folder_istnieje, callback, oiiotool_dostepny, pliki_do_przetworzenia,
             Asynchroniczne>>
Pula == <<zadania, kursor>>

\* mutant: analizuj_folder_tekstur without its os.path.isdir check
AnalizujFolderTekstur_bez_sprawdzenia ==
    /\ pc = "runner"
    /\ pc' = "worker"
    /\ UNCHANGED <<Wejscia, Pula, pliki_wedlug_rozszerzen, metadane_plikow,
                   stats_narzedzia, canceled, zdarzenia, wyniki, wynik>>

\* texture_runner.analizuj_folder_tekstur up to the worker call
AnalizujFolderTekstur ==
    /\ pc = "runner"
    /\ IF folder_istnieje
       THEN pc' = "worker" /\ wynik' = wynik
       ELSE pc' = "koniec" /\ wynik' = Niepowodzenie("Podany folder nie istnieje")
    /\ UNCHANGED <<Wejscia, Pula, pliki_wedlug_rozszerzen, metadane_plikow,
                   stats_narzedzia, canceled, zdarzenia, wyniki>>

\* TextureWorker.przetwarzaj_folder up to the processor call, and
\* przetwarzaj_folder_tekstur's directory check
PrzetwarzajFolder ==
    /\ pc = "worker"
    /\ canceled' = FALSE
    /\ IF folder_istnieje
       THEN pc' = "wyszukiwanie" /\ wynik' = wynik /\ zdarzenia' = zdarzenia
       ELSE /\ pc' = "koniec"
            /\ wynik' = [BrakWyniku EXCEPT !.wyjatek = TRUE]
            /\ zdarzenia' = Append(zdarzenia, Zdarzenie("blad", 0, 1))
    /\ UNCHANGED <<Wejscia, Pula, pliki_wedlug_rozszerzen, metadane_plikow,
                   stats_narzedzia, wyniki>>

Wyszukiwanie ==
    /\ pc = "wyszukiwanie"
    /\ pliki_wedlug_rozszerzen' = znajdz_i_posortuj_pliki(pliki_do_przetworzenia)
    /\ Raportuj(<<Zdarzenie("wyszukiwanie", 0, 1)>>
                \o ZdarzeniaWyszukiwania(Len(pliki_do_przetworzenia)))
    /\ pc' = "metadane_podstawowe"
    /\ UNCHANGED <<Wejscia, Pula, metadane_plikow, stats_narzedzia, wyniki, wynik>>

MetadanePodstawowe ==
    /\ pc = "metadane_podstawowe"
    /\ metadane_plikow' = utworz_podstawowe_metadane(pliki_wedlug_rozszerzen)
    /\ Raportuj(<<Zdarzenie("metadane_podstawowe", 0, 1)>>
                \o ZdarzeniaMetadanych(Len(wszystkie_pliki(pliki_wedlug_rozszerzen))))
    /\ pc' = "mozliwe_duplikaty"
    /\ UNCHANGED <<Wejscia, Pula, pliki_wedlug_rozszerzen, stats_narzedzia,
                   wyniki, wynik>>

MozliweDuplikaty ==
    /\ pc = "mozliwe_duplikaty"
    /\ metadane_plikow' = oznacz_mozliwe_duplikaty(metadane_plikow)
    /\ Raportuj(<<Zdarzenie("mozliwe_duplikaty", 0, 1)>>
                \o ZdarzeniaMozliwychDuplikatow(metadane_plikow))
    /\ pc' = "hash"
    /\ UNCHANGED <<Wejscia, Pula, pliki_wedlug_rozszerzen, stats_narzedzia,
                   wyniki, wynik>>

Hash ==
    /\ pc = "hash"
    /\ metadane_plikow' = oblicz_hashe(metadane_plikow)
    /\ Raportuj(<<Zdarzenie("hash", 0, 1)>> \o ZdarzeniaHash(Len(metadane_plikow)))
    /\ pc' = "dokladne_duplikaty"
    /\ UNCHANGED <<Wejscia, Pula, pliki_wedlug_rozszerzen, stats_narzedzia,
                   wyniki, wynik>>

DokladneDuplikaty ==
    /\ pc = "dokladne_duplikaty"
    /\ metadane_plikow' = oznacz_dokladne_duplikaty(metadane_plikow)
    /\ Raportuj(<<Zdarzenie("dokladne_duplikaty", 0, 1)>>
                \o ZdarzeniaDokladnychDuplikatow(metadane_plikow))
    /\ pc' = "metadane_graficzne"
    /\ UNCHANGED <<Wejscia, Pula, pliki_wedlug_rozszerzen, stats_narzedzia,
                   wyniki, wynik>>

MetadaneGraficzne ==
    /\ pc = "metadane_graficzne"
    /\ metadane_plikow' = pobierz_metadane_graficzne(metadane_plikow)
    /\ stats_narzedzia' = ZbierzWszystkie(StatsPoczatkowe, metadane_plikow, 1)
    /\ Raportuj(<<Zdarzenie("metadane_graficzne", 0, 1)>>)
    /\ pc' = "wyniki"
    /\ UNCHANGED <<Wejscia, Pula, pliki_wedlug_rozszerzen, wyniki, wynik>>

\* TextureProcessor.zapisz_wyniki_do_json: the dict of written paths, or
\* {"blad": ...} when writing raised
zapisz_wyniki_do_json(zapis) == IF zapis = "udany" THEN "zapisane" ELSE "blad"

\* the sciezka_wyjsciowa an entry point hands to przetwarzaj_folder_tekstur and
\* the outcome of writing the reports: the runner passes None
ZapisyRaportow == IF api = "runner" THEN {"brak"} ELSE {"brak", "udany", "nieudany"}

\* the end of przetwarzaj_folder, the result dict and the closing event, and
\* the end of przetwarzaj_folder_tekstur, which writes the reports
Wyniki ==
    /\ pc = "wyniki"
    /\ \E zapis \in ZapisyRaportow :
           wyniki' = [WynikiAnalizy(metadane_plikow, stats_narzedzia) EXCEPT
                         !.sciezki_raportow =
                             IF zapis = "brak" THEN "brak"
                             ELSE zapisz_wyniki_do_json(zapis)]
    /\ Raportuj(<<Zdarzenie("zakonczono", 1, 1)>>)
    /\ pc' = "worker_powrot"
    /\ UNCHANGED <<Wejscia, Pula, pliki_wedlug_rozszerzen, metadane_plikow,
                   stats_narzedzia, wynik>>

\* TextureWorker.przetwarzaj_folder after the processor returned
WorkerPowrot ==
    /\ pc = "worker_powrot"
    /\ wynik' = IF canceled
                THEN Niepowodzenie("Operacja anulowana przez uzytkownika")
                ELSE wyniki
    /\ pc' = IF api = "runner" THEN "runner_powrot" ELSE "koniec"
    /\ UNCHANGED <<Wejscia, Pula, pliki_wedlug_rozszerzen, metadane_plikow,
                   stats_narzedzia, canceled, zdarzenia, wyniki>>

\* analizuj_folder_tekstur after the worker returned: the statistics file is
\* written when the result has statistics, and an exception of that write
\* lands in the function's except branch
RunnerPowrot ==
    /\ pc = "runner_powrot"
    /\ \E zapis_udany \in (IF wynik.ma_pliki THEN BOOLEAN ELSE {TRUE}) :
           wynik' = IF zapis_udany
                    THEN [wynik EXCEPT !.sukces = "True"]
                    ELSE Niepowodzenie("Blad podczas przetwarzania")
    /\ pc' = "koniec"
    /\ UNCHANGED <<Wejscia, Pula, pliki_wedlug_rozszerzen, metadane_plikow,
                   stats_narzedzia, canceled, zdarzenia, wyniki>>

Next ==
    \/ AnalizujFolderTekstur
    \/ PrzetwarzajFolder
    \/ Wyszukiwanie
    \/ MetadanePodstawowe
    \/ MozliweDuplikaty
    \/ Hash
    \/ DokladneDuplikaty
    \/ MetadaneGraficzne
    \/ Wyniki
    \/ WorkerPowrot
    \/ RunnerPowrot

----------------------------------------------------------------------------
(* The worker pools of the four pooled stages, one step per thread          *)
(* transition.  The stage actions above are the same code with each pool    *)
(* run to completion in one step.                                           *)

EtapyZPula == {"wyszukiwanie", "metadane_podstawowe", "hash", "metadane_graficzne"}

\* max_workers of the image-metadata pool; the other pools take the default
\* of ThreadPoolExecutor, which is never below 5
max_workers == 4

\* the number of inputs a pooled stage hands to its executor (total_files)
total_files(e) ==
    CASE e = "wyszukiwanie" -> Len(pliki_do_przetworzenia)
      [] e = "metadane_podstawowe" -> Len(wszystkie_pliki(pliki_wedlug_rozszerzen))
      [] OTHER -> Len(metadane_plikow)

\* a Future: queued, then run by a worker thread, then finished; odebrane
\* once the orchestrating thread has taken its result
Zadanie(e, i) == [etap |-> e, nr |-> i, stan |-> "oczekuje", odebrane |-> FALSE]

ZadaniaEtapu(e) == {k \in 1..Len(zadania) : zadania[k].etap = e}

\* Future.done(): mutant that takes a running task for a finished one
done_w_trakcie(t) == t.stan # "oczekuje"

\* Future.done()
done(t) == t.stan = "gotowe"

\* ThreadPoolExecutor.__exit__: shutdown(wait=True) joins every worker thread
shutdown(e) == \A k \in ZadaniaEtapu(e) : done(zadania[k])

Krok(e) == IF e = "hash" THEN KrokHash ELSE KrokWyszukiwania

\* the progress event of loop index i (0-based) of a pooled stage, if any;
\* the image-metadata loop reports nothing
ZdarzeniaOdbioru(e, i, n) ==
    IF e # "metadane_graficzne" /\ (i % Krok(e) = 0 \/ i = n - 1)
    THEN <<Zdarzenie(e, i + 1, n)>>
    ELSE <<>>

NastepnyEtap(e) ==
    CASE e = "wyszukiwanie" -> "metadane_podstawowe"
      [] e = "metadane_podstawowe" -> "mozliwe_duplikaty"
      [] e = "hash" -> "dokladne_duplikaty"
      [] e = "metadane_graficzne" -> "wyniki"

\* the orchestrating thread enters a pooled stage: the stage's opening event,
\* then executor.map / executor.submit queue one task per input
executor_submit ==
    /\ pc \in EtapyZPula
    /\ kursor = 0
    /\ Raportuj(<<Zdarzenie(pc, 0, 1)>>)
    /\ zadania' = zadania \o [i \in 1..total_files(pc) |-> Zadanie(pc, i)]
    /\ kursor' = 1
    /\ UNCHANGED <<Wejscia, pc, pliki_wedlug_rozszerzen, metadane_plikow,
                   stats_narzedzia, wyniki, wynik>>

\* a worker thread takes the oldest queued task (the work queue is FIFO)
ZadanieStart(k) ==
    /\ zadania[k].stan = "oczekuje"
    /\ \A j \in 1..(k - 1) : zadania[j].stan # "oczekuje"
    /\ zadania[k].etap = "metadane_graficzne" =>
           Cardinality({j \in ZadaniaEtapu(zadania[k].etap) :
                            zadania[j].stan = "biegnie"}) < max_workers
    /\ zadania' = [zadania EXCEPT ![k].stan = "biegnie"]
    /\ UNCHANGED <<Wejscia, pc, pliki_wedlug_rozszerzen, metadane_plikow,
                   stats_narzedzia, canceled, zdarzenia, wyniki, wynik, kursor>>

\* a worker thread finishes its task, in any order among the running ones
ZadanieKoniec(k) ==
    /\ zadania[k].stan = "biegnie"
    /\ zadania' = [zadania EXCEPT ![k].stan = "gotowe"]
    /\ UNCHANGED <<Wejscia, pc, pliki_wedlug_rozszerzen, metadane_plikow,
                   stats_narzedzia, canceled, zdarzenia, wyniki, wynik, kursor>>

\* what one iteration of the collecting loop does with the result of task nr
OdbierzWynik(e, nr) ==
    CASE e = "wyszukiwanie" ->
           /\ pliki_wedlug_rozszerzen' =
                  znajdz_i_posortuj_pliki(SubSeq(pliki_do_przetworzenia, 1, nr))
           /\ UNCHANGED <<metadane_plikow, stats_narzedzia>>
      [] e = "metadane_podstawowe" ->
           LET a == wszystkie_pliki(pliki_wedlug_rozszerzen)[nr]
           IN  /\ metadane_plikow' =
                      IF pliki_do_przetworzenia[a[1]].stat
                      THEN Append(metadane_plikow, MetadanePliku(a[1], a[2]))
                      ELSE metadane_plikow
               /\ UNCHANGED <<pliki_wedlug_rozszerzen, stats_narzedzia>>
      [] e = "hash" ->
           /\ metadane_plikow' =
                  [metadane_plikow EXCEPT
                      ![nr].hash_sha256 = oblicz_hash_pliku(metadane_plikow[nr])]
           /\ UNCHANGED <<pliki_wedlug_rozszerzen, stats_narzedzia>>
      [] e = "metadane_graficzne" ->
           LET w == pobierz_metadane_graficzne_pliku(metadane_plikow[nr])
           IN  /\ metadane_plikow' =
                      [metadane_plikow EXCEPT ![nr] = ZbierzWynik(@, w)]
               /\ stats_narzedzia' = ZbierzStatystyki(stats_narzedzia, w)
               /\ UNCHANGED pliki_wedlug_rozszerzen

\* one iteration of the collecting loop: executor.map yields the results in
\* submission order, as_completed yields any finished future
Odbierz(k) ==
    /\ pc \in EtapyZPula
    /\ kursor >= 1
    /\ zadania[k].etap = pc
    /\ ~zadania[k].odebrane
    /\ done(zadania[k])
    /\ pc # "metadane_graficzne" => zadania[k].nr = kursor
    /\ zadania' = [zadania EXCEPT ![k].odebrane = TRUE]
    /\ OdbierzWynik(pc, zadania[k].nr)
    /\ Raportuj(ZdarzeniaOdbioru(pc, kursor - 1, total_files(pc)))
    /\ kursor' = kursor + 1
    /\ UNCHANGED <<Wejscia, pc, wyniki, wynik>>

\* the collecting loop is exhausted, the with block closes the pool and the
\* stage function returns
executor_exit ==
    /\ pc \in EtapyZPula
    /\ kursor >= 1
    /\ \A k \in ZadaniaEtapu(pc) : zadania[k].odebrane
    /\ shutdown(pc)
    /\ pc' = NastepnyEtap(pc)
    /\ kursor' = 0
    /\ UNCHANGED <<Wejscia, pliki_wedlug_rozszerzen, metadane_plikow,
                   stats_narzedzia, canceled, zdarzenia, wyniki, wynik, zadania>>

NextPula ==
    \/ AnalizujFolderTekstur
    \/ PrzetwarzajFolder
    \/ executor_submit
    \/ \E k \in 1..Len(zadania) : ZadanieStart(k)
    \/ \E k \in 1..Len(zadania) : ZadanieKoniec(k)
    \/ \E k \in 1..Len(zadania) : Odbierz(k)
    \/ executor_exit
    \/ MozliweDuplikaty
    \/ DokladneDuplikaty
    \/ Wyniki
    \/ WorkerPowrot
    \/ RunnerPowrot

----------------------------------------------------------------------------
(* Initial states: the inputs of one call *)

Plik(nazwa, ext, ctime, tresc, stat, odczyt, oiio, pil) ==
    [nazwa |-> nazwa, ext |-> ext, ctime |-> ctime, tresc |-> tresc,
     stat |-> stat, odczyt |-> odczyt, oiio |-> oiio, pil |-> pil]

Listingi(Pliki, n) == UNION {[1..k -> Pliki] : k \in 0..n}

BezAnulowania == [etap |-> "zaden", wynik |-> "True"]

\* TextureWorker.__init__, and a main thread that has called nothing yet
InitWorker ==
    /\ przetwarzanie_aktywne = FALSE
    /\ callback_ukonczenia = 0
    /\ watek_przetwarzania = 0
    /\ watki = <<>>
    /\ kolejka_c4d = <<>>
    /\ wywolania_callbacku = <<>>
    /\ glowny = "wolny"
    /\ zwrot = [op |-> "", wartosc |-> FALSE]

InitZ(Apis, Callbacki, Oiio, Katalogi) ==
    /\ api \in Apis
    /\ folder_istnieje \in BOOLEAN
    /\ callback \in Callbacki
    /\ oiiotool_dostepny \in Oiio
    /\ pliki_do_przetworzenia \in IF folder_istnieje THEN Katalogi ELSE {<<>>}
    /\ pc = api
    /\ pliki_wedlug_rozszerzen = <<>>
    /\ metadane_plikow = <<>>
    /\ stats_narzedzia = StatsPoczatkowe
    /\ canceled = FALSE
    /\ zdarzenia = <<>>
    /\ wyniki = BrakWyniku
    /\ wynik = BrakWyniku
    /\ zadania = <<>>
    /\ kursor = 0
    /\ InitWorker

\* Name pass against hash pass: files that differ in stem, graphic extension,
\* creation time and content.  Stems and contents are only compared for
\* equality, so the first file's stem and content are fixed.
PlikiDup ==
    {Plik(n, e, c, t, TRUE, TRUE, "ok", "ok") :
        n \in {"a", "b"}, e \in {".png", ".jpg"}, c \in Czasy, t \in {1, 2}}

KatalogiDup ==
    {l \in Listingi(PlikiDup, MaxPlikow) :
        Len(l) > 0 => l[1].nazwa = "a" /\ l[1].tresc = 1}

Init == InitZ({"runner"}, {BezAnulowania}, {TRUE}, KatalogiDup)

Spec == Init /\ [][Next]_vars

\* Hash pass: files that differ in extension, creation time, content and
\* readability (an unreadable file keeps an empty hash)
PlikiHash ==
    {Plik("a", e, c, t, TRUE, TRUE, "ok", "ok") :
        e \in {".png", ".jpg"}, c \in Czasy, t \in {1, 2}}
    \cup {Plik("a", e, c, 1, TRUE, FALSE, "ok", "ok") :
        e \in {".png", ".jpg"}, c \in Czasy}

InitHash ==
    InitZ({"runner"}, {BezAnulowania}, {TRUE}, Listingi(PlikiHash, MaxPlikow))

SpecHash == InitHash /\ [][Next]_vars

\* Extension buckets: graphic and other extensions, upper and lower case
PlikiExt ==
    {Plik("a", e, 0, t, TRUE, TRUE, "ok", "ok") :
        e \in {".png", ".PNG", ".txt", ".TXT", ".doc"}, t \in {1, 2}}

InitExt ==
    InitZ({"runner"}, {BezAnulowania}, {TRUE}, Listingi(PlikiExt, MaxPlikow))

SpecExt == InitExt /\ [][Next]_vars

\* Backends: every outcome of the specialized tool and of the generic decoder
PlikiMeta ==
    {Plik("a", e, 0, 1, TRUE, TRUE, o, p) :
        e \in {".png", ".exr", ".txt"},
        o \in {"ok", "kod", "brak_wymiarow", "wyjatek"},
        p \in {"ok", "blad", "brak"}}

InitMeta ==
    InitZ({"runner"}, {BezAnulowania}, BOOLEAN, Listingi(PlikiMeta, MaxPlikowMeta))

SpecMeta == InitMeta /\ [][Next]_vars

\* Cancellation: both entry points, a callback that answers one stage's events
\* with False, with None or by raising
Callbacki ==
    {BezAnulowania}
    \cup {[etap |-> Etapy[k], wynik |-> w] :
             k \in 1..Len(Etapy), w \in {"False", "None", "wyjatek"}}

PlikiAnul ==
    {Plik("a", e, 0, t, TRUE, TRUE, "ok", "ok") : e \in {".png", ".txt"}, t \in {1, 2}}

InitAnul ==
    InitZ({"runner", "worker"}, Callbacki, {TRUE}, Listingi(PlikiAnul, MaxPlikow))

SpecAnul == InitAnul /\ [][Next]_vars

\* Worker pools: every scheduling of the tasks of the four pooled stages;
\* files differ in category and in whether os.stat succeeds
PlikiPula ==
    {Plik("a", e, 0, 1, s, TRUE, "ok", "ok") : e \in {".png", ".txt"}, s \in BOOLEAN}

InitPula ==
    InitZ({"runner"}, {BezAnulowania}, {TRUE}, Listingi(PlikiPula, MaxZadan))

SpecPula == InitPula /\ [][NextPula]_vars

\* Base metadata: files that differ in extension, content and in whether
\* os.stat succeeds
PlikiStat ==
    {Plik("a", e, 0, t, s, TRUE, "ok", "ok") :
        e \in {".png", ".jpg", ".txt"}, t \in {1, 2}, s \in BOOLEAN}

InitStat ==
    InitZ({"runner"}, {BezAnulowania}, {TRUE}, Listingi(PlikiStat, MaxPlikow))

SpecStat == InitStat /\ [][Next]_vars

\* Name pass: stems that differ in case only, two graphic extensions, and
\* creation times of which two fall into the same second
PlikiNazwy ==
    {Plik(n, e, c, 1, TRUE, TRUE, "ok", "ok") :
        n \in {"a", "A"}, e \in {".png", ".jpg"}, c \in Czasy}

InitNazwy ==
    InitZ({"runner"}, {BezAnulowania}, {TRUE}, Listingi(PlikiNazwy, MaxPlikow))

SpecNazwy == InitNazwy /\ [][Next]_vars

----------------------------------------------------------------------------
(* TextureWorker.przetwarzaj_folder_async: the main thread starts and       *)
(* cancels runs, each run is a process_thread, and the functions the        *)
(* threads hand to c4d.CallAsyncFunction are called by the main thread.     *)
(* A thread's call of przetwarzaj_folder is one step per stage.             *)

\* how many runs the main thread starts
MaxWatkow == 2

\* the variables of one synchronous call
Potok == <<api, folder_istnieje, callback, oiiotool_dostepny, pliki_do_przetworzenia,
           pc, pliki_wedlug_rozszerzen, metadane_plikow, stats_narzedzia, canceled,
           zdarzenia, wyniki, wynik, zadania, kursor>>

\* threading.Thread.is_alive
is_alive(t) == watki[t].pc # "koniec"

\* process_thread at its start; callback_ukonczenia is the argument of the
\* call that started it, etap the number of stages it has run, and anulowano
\* records that anuluj_przetwarzanie returned True while it was alive
process_thread(folder, cb) ==
    [pc |-> "przetwarza", folder |-> folder, callback_ukonczenia |-> cb,
     etap |-> 0, wyniki |-> "brak", anulowano |-> FALSE]

\* przetwarzaj_folder_async, called by the main thread
PrzetwarzajFolderAsync ==
    /\ glowny = "wolny"
    /\ \E folder \in BOOLEAN, z_callbackiem \in BOOLEAN :
           IF przetwarzanie_aktywne
           THEN /\ zwrot' = [op |-> "przetwarzaj_folder_async", wartosc |-> FALSE]
                /\ UNCHANGED <<przetwarzanie_aktywne, callback_ukonczenia,
                               watek_przetwarzania, watki>>
           ELSE /\ Len(watki) < MaxWatkow
                /\ callback_ukonczenia' = IF z_callbackiem THEN Len(watki) + 1 ELSE 0
                /\ przetwarzanie_aktywne' = TRUE
                /\ watki' = Append(watki, process_thread(folder, callback_ukonczenia'))
                /\ watek_przetwarzania' = Len(watki) + 1
                /\ zwrot' = [op |-> "przetwarzaj_folder_async", wartosc |-> TRUE]
    /\ UNCHANGED <<Potok, kolejka_c4d, wywolania_callbacku, glowny>>

\* one stage of self.przetwarzaj_folder in a thread, with its progress events
WatekEtap(t) ==
    /\ t \in DOMAIN watki
    /\ watki[t].pc = "przetwarza"
    /\ watki[t].folder
    /\ watki[t].etap < Len(Etapy)
    /\ watki' = [watki EXCEPT ![t].etap = @ + 1]
    /\ UNCHANGED <<Potok, przetwarzanie_aktywne, callback_ukonczenia,
                   watek_przetwarzania, kolejka_c4d, wywolania_callbacku, glowny, zwrot>>

\* self.przetwarzaj_folder returned or raised (a missing folder raises): the
\* thread tests self._callback_ukonczenia and queues the notification
WatekPowiadom(t) ==
    /\ t \in DOMAIN watki
    /\ watki[t].pc = "przetwarza"
    /\ ~watki[t].folder \/ watki[t].etap = Len(Etapy)
    /\ LET w == IF watki[t].folder THEN "wyniki" ELSE "blad"
       IN  /\ watki' = [watki EXCEPT ![t].pc = "finally", ![t].wyniki = w]
           /\ kolejka_c4d' = IF callback_ukonczenia # 0
                             THEN Append(kolejka_c4d, [watek |-> t, wyniki |-> w])
                             ELSE kolejka_c4d
    /\ UNCHANGED <<Potok, przetwarzanie_aktywne, callback_ukonczenia,
                   watek_przetwarzania, wywolania_callbacku, glowny, zwrot>>

\* the finally clause of process_thread
WatekFinally(t) ==
    /\ t \in DOMAIN watki
    /\ watki[t].pc = "finally"
    /\ przetwarzanie_aktywne' = FALSE
    /\ watki' = [watki EXCEPT ![t].pc = "koniec"]
    /\ UNCHANGED <<Potok, callback_ukonczenia, watek_przetwarzania, kolejka_c4d,
                   wywolania_callbacku, glowny, zwrot>>

\* the main thread runs a queued lambda: self._callback_ukonczenia(wyniki),
\* with the value the field has now; calling None raises TypeError
C4DWykonaj ==
    /\ glowny = "wolny"
    /\ kolejka_c4d # <<>>
    /\ kolejka_c4d' = Tail(kolejka_c4d)
    /\ wywolania_callbacku' =
           IF callback_ukonczenia # 0
           THEN Append(wywolania_callbacku,
                       [callback |-> callback_ukonczenia,
                        watek |-> Head(kolejka_c4d).watek,
                        wyniki |-> Head(kolejka_c4d).wyniki])
           ELSE wywolania_callbacku
    /\ UNCHANGED <<Potok, przetwarzanie_aktywne, callback_ukonczenia,
                   watek_przetwarzania, watki, glowny, zwrot>>

\* anuluj_przetwarzanie up to its join
AnulujPrzetwarzanie ==
    /\ glowny = "wolny"
    /\ IF ~przetwarzanie_aktywne
       THEN /\ zwrot' = [op |-> "anuluj_przetwarzanie", wartosc |-> FALSE]
            /\ UNCHANGED <<przetwarzanie_aktywne, glowny>>
       ELSE /\ przetwarzanie_aktywne' = FALSE
            /\ IF watek_przetwarzania # 0 /\ is_alive(watek_przetwarzania)
               THEN glowny' = "join" /\ UNCHANGED zwrot
               ELSE /\ zwrot' = [op |-> "anuluj_przetwarzanie", wartosc |-> TRUE]
                    /\ UNCHANGED glowny
    /\ UNCHANGED <<Potok, callback_ukonczenia, watek_przetwarzania, watki,
                   kolejka_c4d, wywolania_callbacku>>

\* join(timeout=1.0) returns, because the thread ended or the second passed,
\* and anuluj_przetwarzanie returns True
AnulujPowrot ==
    /\ glowny = "join"
    /\ glowny' = "wolny"
    /\ zwrot' = [op |-> "anuluj_przetwarzanie", wartosc |-> TRUE]
    /\ watki' = [watki EXCEPT ![watek_przetwarzania].anulowano =
                                  is_alive(watek_przetwarzania)]
    /\ UNCHANGED <<Potok, przetwarzanie_aktywne, callback_ukonczenia,
                   watek_przetwarzania, kolejka_c4d, wywolania_callbacku>>

NextAsync ==
    \/ PrzetwarzajFolderAsync
    \/ AnulujPrzetwarzanie
    \/ AnulujPowrot
    \/ C4DWykonaj
    \/ \E t \in 1..Len(watki) : WatekEtap(t)
    \/ \E t \in 1..Len(watki) : WatekPowiadom(t)
    \/ \E t \in 1..Len(watki) : WatekFinally(t)

InitAsync ==
    /\ InitZ({"worker"}, {BezAnulowania}, {TRUE}, {<<>>})
    /\ folder_istnieje

SpecAsync == InitAsync /\ [][NextAsync]_vars

\* the threads are scheduled, the join ends, and the main thread, when it is
\* not inside a call, serves the queue of c4d.CallAsyncFunction
SpecAsyncFair ==
    /\ SpecAsync
    /\ \A t \in 1..MaxWatkow :
           /\ WF_vars(WatekEtap(t))
           /\ WF_vars(WatekPowiadom(t))
           /\ WF_vars(WatekFinally(t))
    /\ WF_vars(AnulujPowrot)
    /\ WF_vars(C4DWykonaj)

----------------------------------------------------------------------------
(* Vocabulary of the properties *)

Indeksy(m) == 1..Len(m)

\* the hash pass has run on metadane_plikow
PoPrzebieguHash ==
    pc \in {"metadane_graficzne", "wyniki", "worker_powrot", "runner_powrot"}

\* the entry point returned the records of a completed run
Ukonczono == pc = "koniec" /\ wynik.ma_pliki

\* records of m in the extension bucket and with the (non-empty) hash of record i
WspolnyHash(m, i) ==
    {j \in Indeksy(m) : /\ m[j].rozszerzenie = m[i].rozszerzenie
                        /\ m[j].hash_sha256 = m[i].hash_sha256}

WGrupieHash(m, i) ==
    m[i].hash_sha256 # PustyNapis /\ Cardinality(WspolnyHash(m, i)) > 1

\* records of m with the filename stem of record i
WspolnaNazwa(m, i) ==
    {j \in Indeksy(m) : pliki_do_przetworzenia[m[j].sciezka].nazwa
                          = pliki_do_przetworzenia[m[i].sciezka].nazwa}

\* the flag the name pass gives record i of m
FlagaNazwy(m, i) == oznacz_mozliwe_duplikaty(m)[i].flaga

Oryginaly(m, G) == {j \in G : m[j].flaga = "oryginal"}

----------------------------------------------------------------------------
(* C1: after the hash pass, every set of two or more records with the same  *)
(* extension bucket and the same non-empty hash has exactly one Original,    *)
(* with id NN-o; every other member is a Duplicate with id NN-Dk, and the k  *)
(* are exactly 1 .. size-1, each used once.                                  *)

GrupaPoprawna(m, G) ==
    \E nr \in Indeksy(m) :
        /\ Cardinality(Oryginaly(m, G)) = 1
        /\ \A j \in Oryginaly(m, G) : m[j].id_grupy = <<nr, "o", 0>>
        /\ \A j \in G \ Oryginaly(m, G) :
              /\ m[j].flaga = "duplikat"
              /\ Len(m[j].id_grupy) = 3
              /\ m[j].id_grupy[1] = nr
              /\ m[j].id_grupy[2] = "D"
        /\ {m[j].id_grupy[3] : j \in G \ Oryginaly(m, G)} = 1..(Cardinality(G) - 1)
        /\ \A j, k \in G \ Oryginaly(m, G) :
              m[j].id_grupy[3] = m[k].id_grupy[3] => j = k

C5_PierwszenstwoHash ==
    (PoPrzebieguHash \/ Ukonczono) =>
        \A i \in Indeksy(metadane_plikow) :
            /\ FlagaNazwy(metadane_plikow, i) = "mozliwy duplikat"
            /\ WGrupieHash(metadane_plikow, i)
            => /\ metadane_plikow[i].flaga \in {"oryginal", "duplikat"}
               /\ Ukonczono => wynik.pliki[i].flaga \in {"oryginal", "duplikat"}

\* a possible duplicate by name that the hash pass made the Original of its group
C5_Swiadek ==
    /\ Ukonczono
    /\ \E i \in Indeksy(wynik.pliki) :
          /\ FlagaNazwy(wynik.pliki, i) = "mozliwy duplikat"
          /\ WGrupieHash(wynik.pliki, i)
          /\ wynik.pliki[i].flaga = "oryginal"

(* C6 as stated: in the final result of a completed run, id_grupy is        *)
(* non-empty if and only if flaga is non-empty.                              *)

C6_IdWtwFlaga ==
    Ukonczono =>
        \A i \in Indeksy(wynik.pliki) :
            (wynik.pliki[i].id_grupy # PustyNapis) <=> (wynik.pliki[i].flaga # "")

(* C6 amended: in the final result a non-empty id_grupy implies flaga       *)
(* Original or Duplicate, every Duplicate has a non-empty id_grupy, and a    *)
(* PossibleDuplicate has an empty one (the name pass sets the flag only).    *)

C6_IdImplikujeFlage ==
    Ukonczono =>
        \A i \in Indeksy(wynik.pliki) :
            /\ wynik.pliki[i].id_grupy # PustyNapis
                  => wynik.pliki[i].flaga \in {"oryginal", "duplikat"}
            /\ wynik.pliki[i].flaga = "duplikat"
                  => wynik.pliki[i].id_grupy # PustyNapis
            /\ wynik.pliki[i].flaga = "mozliwy duplikat"
                  => wynik.pliki[i].id_grupy = PustyNapis

\* one record with an id, one flagged Original by the name pass without an id
C6_Swiadek ==
    /\ Ukonczono
    /\ \E i, j \in Indeksy(wynik.pliki) :
          /\ wynik.pliki[i].id_grupy # PustyNapis
          /\ wynik.pliki[j].flaga = "oryginal"
          /\ wynik.pliki[j].id_grupy = PustyNapis

(* C7 as stated: in the final result every name group of two or more        *)
(* records and every hash group has at most one Original, and every other    *)
(* member is Duplicate or PossibleDuplicate.                                 *)

JedenOryginal(m, G) ==
    /\ Cardinality(Oryginaly(m, G)) <= 1
    /\ \A j \in G \ Oryginaly(m, G) : m[j].flaga \in {"duplikat", "mozliwy duplikat"}

C7_JedenOryginalWGrupie ==
    Ukonczono =>
        \A i \in Indeksy(wynik.pliki) :
            /\ Cardinality(WspolnaNazwa(wynik.pliki, i)) > 1
                  => JedenOryginal(wynik.pliki, WspolnaNazwa(wynik.pliki, i))
            /\ WGrupieHash(wynik.pliki, i)
                  => JedenOryginal(wynik.pliki, WspolnyHash(wynik.pliki, i))

----------------------------------------------------------------------------
(* C2 as stated: two files with equal content hash whose extensions differ  *)
(* (lower-cased; graphic or not) never share a hash-duplicate group number.  *)

Rozszerzenie(m, i) == Lower(pliki_do_przetworzenia[m[i].sciezka].ext)

C2_NigdyMiedzyRozszerzeniami ==
    Ukonczono =>
        \A i, j \in Indeksy(wynik.pliki) :
            /\ wynik.pliki[i].hash_sha256 # PustyNapis
            /\ wynik.pliki[i].hash_sha256 = wynik.pliki[j].hash_sha256
            /\ Rozszerzenie(wynik.pliki, i) # Rozszerzenie(wynik.pliki, j)
            => ~ /\ wynik.pliki[i].id_grupy # PustyNapis
                 /\ wynik.pliki[j].id_grupy # PustyNapis
                 /\ NrGrupy(wynik.pliki[i].id_grupy) = NrGrupy(wynik.pliki[j].id_grupy)

----------------------------------------------------------------------------
(* Backends of the file behind record i of m *)

Graficzny(m, i) == m[i].rozszerzenie # "pozostale"

NarzedzieZawodzi(m, i) ==
    /\ oiiotool_dostepny
    /\ pliki_do_przetworzenia[m[i].sciezka].oiio \in {"kod", "brak_wymiarow", "wyjatek"}

DekoderZawodzi(m, i) == pliki_do_przetworzenia[m[i].sciezka].pil # "ok"

(* C8 as stated: a graphic record for which the specialized tool and the    *)
(* generic decoder both fail is in the final result with analysis_tool =     *)
(* error and an analysis_error that names both failures.                     *)

C8_ObaZawodza ==
    Ukonczono =>
        /\ Len(wynik.pliki) = Len(pliki_do_przetworzenia)
        /\ \A i \in Indeksy(wynik.pliki) :
              /\ Graficzny(wynik.pliki, i)
              /\ NarzedzieZawodzi(wynik.pliki, i)
              /\ DekoderZawodzi(wynik.pliki, i)
              => /\ wynik.pliki[i].narzedzie_analizy = "blad"
                 /\ wynik.pliki[i].blad_analizy = {"oiiotool", "PIL"}

(* C9: a graphic record whose specialized-tool invocation fails while the   *)
(* generic decoder succeeds ends with analysis_tool = PIL, width and height  *)
(* present and an empty analysis_error.                                      *)

C9_ZapasowyDekoder ==
    Ukonczono =>
        \A i \in Indeksy(wynik.pliki) :
            /\ Graficzny(wynik.pliki, i)
            /\ NarzedzieZawodzi(wynik.pliki, i)
            /\ ~DekoderZawodzi(wynik.pliki, i)
            => /\ wynik.pliki[i].narzedzie_analizy = "PIL"
               /\ wynik.pliki[i].szerokosc # None
               /\ wynik.pliki[i].wysokosc # None
               /\ wynik.pliki[i].blad_analizy = {}

\* each way the tool can fail, with the decoder succeeding, in one result
C9_Swiadek ==
    /\ Ukonczono
    /\ \E i, j \in Indeksy(wynik.pliki) :
          /\ Graficzny(wynik.pliki, i) /\ Graficzny(wynik.pliki, j)
          /\ oiiotool_dostepny
          /\ pliki_do_przetworzenia[wynik.pliki[i].sciezka].oiio = "kod"
          /\ pliki_do_przetworzenia[wynik.pliki[j].sciezka].oiio = "brak_wymiarow"
          /\ ~DekoderZawodzi(wynik.pliki, i) /\ ~DekoderZawodzi(wynik.pliki, j)
          /\ wynik.pliki[i].narzedzie_analizy = "PIL"
          /\ wynik.pliki[j].narzedzie_analizy = "PIL"

----------------------------------------------------------------------------
(* Cancellation *)

\* the caller's callback answered a delivered event with False
Przerwano ==
    \E k \in 1..Len(zdarzenia) : callback_statusu(zdarzenia[k]) = "False"

(* C3 as stated: when the callback returned False during a stage, the       *)
(* entry point returns success = false with the cancellation message and     *)
(* no record data.                                                           *)

C3_AnulowanieDajeNiepowodzenie ==
    (pc = "koniec" /\ Przerwano) =>
        /\ wynik.sukces = "False"
        /\ wynik.komunikat = "Operacja anulowana przez uzytkownika"
        /\ ~wynik.ma_pliki

(* C4 as stated: once the callback returned False, no later stage starts:   *)
(* every event delivered after the aborted one belongs to the same stage.    *)

C4_ZadenPozniejszyEtap ==
    \A k, l \in 1..Len(zdarzenia) :
        (k < l /\ callback_statusu(zdarzenia[k]) = "False")
            => zdarzenia[l].etap = zdarzenia[k].etap

----------------------------------------------------------------------------
(* Stage order under every schedule of the worker threads *)

Nieukonczone(t) == t.stan # "gotowe"

EtapyZdarzen == {zdarzenia[j].etap : j \in 1..Len(zdarzenia)}

\* C10: stages run in the fixed order of Etapy: the stages of the delivered
\* progress events never go back, so events of two stages never interleave,
\* and a run that reports its end has reported every stage; while a worker
\* task of some stage is queued or running, no task of a later stage has been
\* handed to a pool and no progress event of a later stage has been
\* delivered, whatever the order in which the worker threads start and finish.
C10_EtapyPoKolei ==
    /\ \A j \in 1..(Len(zdarzenia) - 1) :
           NrEtapu(zdarzenia[j].etap) <= NrEtapu(zdarzenia[j + 1].etap)
    /\ "zakonczono" \in EtapyZdarzen => EtapyZdarzen = Zakres(Etapy)
    /\ \A k \in 1..Len(zadania) :
           Nieukonczone(zadania[k]) =>
               /\ \A j \in 1..Len(zadania) :
                      NrEtapu(zadania[j].etap) <= NrEtapu(zadania[k].etap)
               /\ \A j \in 1..Len(zdarzenia) :
                      NrEtapu(zdarzenia[j].etap) <= NrEtapu(zadania[k].etap)

\* C10 witness: in the hash stage the second task has finished before the
\* first, which is still running, so the collecting loop is held back; the
\* pools of discovery and base metadata have been through two tasks each
C10_Swiadek ==
    /\ pc = "hash"
    /\ \E k, j \in ZadaniaEtapu("hash") :
           /\ zadania[k].nr < zadania[j].nr
           /\ zadania[k].stan = "biegnie"
           /\ zadania[j].stan = "gotowe"
    /\ Cardinality(ZadaniaEtapu("wyszukiwanie")) >= 2
    /\ Cardinality(ZadaniaEtapu("metadane_podstawowe")) >= 2
    /\ zdarzenia[Len(zdarzenia)].etap = "hash"

----------------------------------------------------------------------------
(* Order of the records *)

\* the listing positions of the records of a list
Sciezki(m) == [i \in 1..Len(m) |-> m[i].sciezka]

\* listing position of the first file of the category of the file at p
PierwszyZKategorii(p) ==
    CHOOSE q \in 1..Len(pliki_do_przetworzenia) :
        /\ przetworz_plik(q) = przetworz_plik(p)
        /\ \A r \in 1..(q - 1) : przetworz_plik(r) # przetworz_plik(p)

\* C11 as stated: the records of a completed run are in the order of the
\* directory listing, whatever the order in which the worker tasks finished.
C11_KolejnoscListingu ==
    Ukonczono =>
        \A i, j \in Indeksy(wynik.pliki) :
            i < j => wynik.pliki[i].sciezka < wynik.pliki[j].sciezka

\* C11 amended: the order of the records of a completed run does not depend
\* on the order in which worker tasks finished: there is one record for each
\* file whose stat succeeded, records are grouped by category, the categories
\* in the order of their first file in the listing and the records of one
\* category in listing order.
C11_KolejnoscKategorii ==
    Ukonczono =>
        /\ {wynik.pliki[i].sciezka : i \in Indeksy(wynik.pliki)}
               = {p \in 1..Len(pliki_do_przetworzenia) : pliki_do_przetworzenia[p].stat}
        /\ \A i, j \in Indeksy(wynik.pliki) :
               i < j =>
                   LET p == wynik.pliki[i].sciezka
                       q == wynik.pliki[j].sciezka
                   IN  IF przetworz_plik(p) = przetworz_plik(q)
                       THEN p < q
                       ELSE PierwszyZKategorii(p) < PierwszyZKategorii(q)

\* C11 witness: a completed run over three files of two categories, all with
\* a record, in which a later file of the listing precedes an earlier one
C11_Swiadek ==
    /\ Ukonczono
    /\ Len(wynik.pliki) = 3
    /\ \E i, j \in Indeksy(wynik.pliki) :
           i < j /\ wynik.pliki[i].sciezka > wynik.pliki[j].sciezka

----------------------------------------------------------------------------
(* Preference of the specialized tool *)

\* the image-metadata stage has run on metadane_plikow
PoMetadanychGraficznych == pc \in {"wyniki", "worker_powrot", "runner_powrot"}

WyjscieNarzedzia(m, i) == pliki_do_przetworzenia[m[i].sciezka].oiio

\* C12: after the image-metadata stage, a graphic record whose file the
\* available specialized tool reads with width and height has analysis_tool =
\* oiiotool and the generic decoder was not called for it; the generic
\* decoder is called for a record only when the tool is unavailable, its
\* invocation fails (exit code or exception) or its output lacks a dimension;
\* and a record's analysis_tool, when it names a backend, names one that was
\* called for it.
C12_PreferowaneNarzedzie ==
    PoMetadanychGraficznych =>
        \A i \in Indeksy(metadane_plikow) :
            /\ (/\ Graficzny(metadane_plikow, i)
                /\ oiiotool_dostepny
                /\ WyjscieNarzedzia(metadane_plikow, i) = "ok")
               => /\ metadane_plikow[i].narzedzie_analizy = "oiiotool"
                  /\ "PIL" \notin Zakres(wywolania(metadane_plikow[i]))
            /\ "PIL" \in Zakres(wywolania(metadane_plikow[i]))
               => \/ ~oiiotool_dostepny
                  \/ WyjscieNarzedzia(metadane_plikow, i) \in {"kod", "wyjatek"}
                  \/ WyjscieNarzedzia(metadane_plikow, i) = "brak_wymiarow"
            /\ metadane_plikow[i].narzedzie_analizy \in {"oiiotool", "PIL"}
               => metadane_plikow[i].narzedzie_analizy
                      \in Zakres(wywolania(metadane_plikow[i]))

\* C12 witness: with the tool available, one record read by the tool although
\* the generic decoder would have read the file too, and one record the
\* generic decoder was called for after the tool's output lacked a dimension
C12_Swiadek ==
    /\ PoMetadanychGraficznych
    /\ oiiotool_dostepny
    /\ \E i, j \in Indeksy(metadane_plikow) :
          /\ Graficzny(metadane_plikow, i) /\ Graficzny(metadane_plikow, j)
          /\ WyjscieNarzedzia(metadane_plikow, i) = "ok"
          /\ ~DekoderZawodzi(metadane_plikow, i)
          /\ metadane_plikow[i].narzedzie_analizy = "oiiotool"
          /\ WyjscieNarzedzia(metadane_plikow, j) = "brak_wymiarow"
          /\ "PIL" \in Zakres(wywolania(metadane_plikow[j]))

----------------------------------------------------------------------------
(* Progress values.  A progress value is the exact fraction postep[1] /      *)
(* postep[2]; the floating-point value the code computes is a monotone       *)
(* function of it that maps 0 to 0.0 and 1 to 1.0.                           *)

ZdarzeniaEtapu(e) == {j \in 1..Len(zdarzenia) : zdarzenia[j].etap = e}

PostepWZakresie(z) ==
    z.postep[2] > 0 /\ 0 <= z.postep[1] /\ z.postep[1] <= z.postep[2]

PostepNieMaleje(y, z) == y.postep[1] * z.postep[2] <= z.postep[1] * y.postep[2]

\* C13: every progress value delivered so far lies in [0, 1], and of two
\* events of the same stage the later one carries a progress value that is
\* not smaller, for every number of files, name groups and extension buckets.
C13_PostepMonotoniczny ==
    /\ \A j \in 1..Len(zdarzenia) : PostepWZakresie(zdarzenia[j])
    /\ \A j, k \in 1..Len(zdarzenia) :
           (j < k /\ zdarzenia[j].etap = zdarzenia[k].etap)
               => PostepNieMaleje(zdarzenia[j], zdarzenia[k])

\* C13 witness: a finished run over three records in two name groups and two
\* extension buckets: both loops of the name pass and both loops of the hash
\* pass have reported, each stage more than once
C13_Swiadek ==
    /\ Ukonczono
    /\ Len(wynik.pliki) = 3
    /\ Len(grupy_plikow(wynik.pliki)) = 2
    /\ Len(hash_wedlug_rozszerzen(wynik.pliki)) = 2
    /\ Cardinality(ZdarzeniaEtapu("mozliwe_duplikaty")) = 5
    /\ Cardinality(ZdarzeniaEtapu("dokladne_duplikaty")) = 5
    /\ Cardinality(ZdarzeniaEtapu("wyszukiwanie")) = 3

----------------------------------------------------------------------------
(* A root path that is not a directory *)

BezDanych(w) == ~w.ma_pliki /\ w.pliki = <<>> /\ w.statystyki = <<>>

ZadenEtapNieRuszyl ==
    /\ pc \in {"runner", "worker", "koniec"}
    /\ pliki_wedlug_rozszerzen = <<>>
    /\ metadane_plikow = <<>>
    /\ zadania = <<>>

\* C14 as stated: when the root path is not a directory, no stage runs, no
\* event is delivered, and the call returns success = false with a non-empty
\* message and no records or statistics, through either entry point.
C14_BrakFolderu ==
    ~folder_istnieje =>
        /\ ZadenEtapNieRuszyl
        /\ zdarzenia = <<>>
        /\ pc = "koniec" =>
               /\ wynik.sukces = "False"
               /\ wynik.komunikat # ""
               /\ BezDanych(wynik)

\* C14 amended: when the root path is not a directory no stage runs and no
\* records or statistics are produced; analizuj_folder_tekstur returns
\* success = false with a non-empty message and delivers no event, while
\* TextureWorker.przetwarzaj_folder raises instead of returning a result,
\* after delivering exactly one event, of stage "blad".
C14_BrakFolderuWedlugWejscia ==
    ~folder_istnieje =>
        /\ ZadenEtapNieRuszyl
        /\ api = "runner" => zdarzenia = <<>>
        /\ pc = "koniec" =>
               /\ BezDanych(wynik)
               /\ IF api = "runner"
                  THEN /\ ~wynik.wyjatek
                       /\ wynik.sukces = "False"
                       /\ wynik.komunikat # ""
                  ELSE /\ wynik.wyjatek
                       /\ zdarzenia = <<Zdarzenie("blad", 0, 1)>>

\* C14 witness: the worker entry point has raised on a missing root
C14_Swiadek ==
    /\ ~folder_istnieje
    /\ pc = "koniec"
    /\ api = "worker"
    /\ wynik.wyjatek
    /\ Len(zdarzenia) = 1

----------------------------------------------------------------------------
(* Failures while writing the reports *)

\* C15 as stated: a run over an existing root that was not cancelled hands
\* its caller the records and statistics the analysis computed, whether or
\* not writing a report file failed.
C15_WynikiNieGina ==
    (pc = "koniec" /\ folder_istnieje /\ ~canceled) =>
        /\ wynik.ma_pliki
        /\ wynik.pliki = wyniki.pliki
        /\ wynik.statystyki = wyniki.statystyki

----------------------------------------------------------------------------
(* Per-file failures that must not stop the pipeline *)

\* the hash stage has run on metadane_plikow
PoHashu == pc \in {"dokladne_duplikaty", "metadane_graficzne", "wyniki",
                   "worker_powrot", "runner_powrot", "koniec"}

OdczytUdany(m, i) == pliki_do_przetworzenia[m[i].sciezka].odczyt

\* C16: once the hash stage has run, a record's content hash is non-empty
\* exactly when reading its file succeeded, and the hash stage drops no
\* record; a run over an existing root ends with every stage reported and
\* with a result that holds all the records, unreadable files included.
C16_HashNiePrzerywa ==
    /\ (PoHashu /\ folder_istnieje) =>
           /\ Len(metadane_plikow) = Len(pliki_do_przetworzenia)
           /\ \A i \in Indeksy(metadane_plikow) :
                  metadane_plikow[i].hash_sha256 # PustyNapis
                      <=> OdczytUdany(metadane_plikow, i)
    /\ (pc = "koniec" /\ folder_istnieje) =>
           /\ EtapyZdarzen = Zakres(Etapy)
           /\ wyniki.ma_pliki
           /\ wyniki.pliki = metadane_plikow

\* C16 witness: a finished run whose result holds a record without a hash
\* next to two records that were hashed and joined into a hash group
C16_Swiadek ==
    /\ pc = "koniec"
    /\ wyniki.ma_pliki
    /\ \E i, j, k \in Indeksy(wyniki.pliki) :
          /\ ~OdczytUdany(wyniki.pliki, i)
          /\ wyniki.pliki[i].hash_sha256 = PustyNapis
          /\ j # k
          /\ wyniki.pliki[j].flaga = "oryginal"
          /\ wyniki.pliki[k].flaga = "duplikat"
          /\ wyniki.pliki[j].hash_sha256 = wyniki.pliki[k].hash_sha256

\* the base-metadata stage has run on metadane_plikow
PoMetadanychPodstawowych ==
    pc \in {"mozliwe_duplikaty", "hash", "dokladne_duplikaty", "metadane_graficzne",
            "wyniki", "worker_powrot", "runner_powrot", "koniec"}

PlikiZeStat == {p \in 1..Len(pliki_do_przetworzenia) : pliki_do_przetworzenia[p].stat}

\* C17: once the base-metadata stage has run, the record list holds exactly
\* one record for each discovered file whose stat succeeded and none for a
\* file whose stat failed; a run over an existing root ends with every stage
\* reported and a result that holds those records.
C17_StatNiePrzerywa ==
    /\ (PoMetadanychPodstawowych /\ folder_istnieje) =>
           /\ {metadane_plikow[i].sciezka : i \in Indeksy(metadane_plikow)} = PlikiZeStat
           /\ Len(metadane_plikow) = Cardinality(PlikiZeStat)
    /\ (pc = "koniec" /\ folder_istnieje) =>
           /\ EtapyZdarzen = Zakres(Etapy)
           /\ wyniki.ma_pliki
           /\ Len(wyniki.pliki) = Cardinality(PlikiZeStat)

\* C17 witness: a finished run over three files, the second of which could
\* not be stat-ed, with the other two in the result
C17_Swiadek ==
    /\ pc = "koniec"
    /\ Len(pliki_do_przetworzenia) = 3
    /\ PlikiZeStat = {1, 3}
    /\ wyniki.ma_pliki
    /\ Len(wyniki.pliki) = 2

----------------------------------------------------------------------------
(* The name pass *)

\* the name pass has run on metadane_plikow and the hash pass has not
PoPrzebieguNazw == pc \in {"hash", "dokladne_duplikaty"}

Utworzono(m, i) == strptime(m[i].data_utworzenia)

\* C18: after the name pass, the records that share a filename stem, compared
\* exactly and with regard to case, form a group; in a group of two or more
\* exactly one record is Original, none is created later than it, every
\* other member is PossibleDuplicate and no member has a group id; a record
\* alone in its group has no flag and no group id.
C18_PrzebiegNazw ==
    PoPrzebieguNazw =>
        \A i \in Indeksy(metadane_plikow) :
            LET G == WspolnaNazwa(metadane_plikow, i)
            IN  /\ metadane_plikow[i].id_grupy = PustyNapis
                /\ IF Cardinality(G) = 1
                   THEN metadane_plikow[i].flaga = ""
                   ELSE /\ Cardinality(Oryginaly(metadane_plikow, G)) = 1
                        /\ \A o \in Oryginaly(metadane_plikow, G) :
                               \A j \in G : Utworzono(metadane_plikow, o)
                                                <= Utworzono(metadane_plikow, j)
                        /\ \A j \in G \ Oryginaly(metadane_plikow, G) :
                               metadane_plikow[j].flaga = "mozliwy duplikat"

\* C18 witness: after the name pass, a group of two whose later-listed file
\* is the older one and became Original, next to a record whose stem differs
\* in case only and was left without a flag
C18_Swiadek ==
    /\ PoPrzebieguNazw
    /\ \E i, j, k \in Indeksy(metadane_plikow) :
          /\ WspolnaNazwa(metadane_plikow, i) = {i, j}
          /\ i < j
          /\ Utworzono(metadane_plikow, j) < Utworzono(metadane_plikow, i)
          /\ metadane_plikow[j].flaga = "oryginal"
          /\ metadane_plikow[i].flaga = "mozliwy duplikat"
          /\ pliki_do_przetworzenia[metadane_plikow[i].sciezka].nazwa = "a"
          /\ pliki_do_przetworzenia[metadane_plikow[k].sciezka].nazwa = "A"
          /\ metadane_plikow[k].flaga = ""

\* C19 as stated: after the name pass, no member of a name group with the
\* created_at of the group's Original was discovered before the Original,
\* that is, stands before it in the directory listing.
C19_PierwszyWListingu ==
    PoPrzebieguNazw =>
        \A o \in Indeksy(metadane_plikow) :
            metadane_plikow[o].flaga = "oryginal" =>
                \A j \in WspolnaNazwa(metadane_plikow, o) :
                    Utworzono(metadane_plikow, j) = Utworzono(metadane_plikow, o)
                        => metadane_plikow[o].sciezka <= metadane_plikow[j].sciezka

\* C19 amended: after the name pass, no member of a name group with the
\* created_at of the group's Original stands before the Original in the
\* record list, and every such member other than the Original is
\* PossibleDuplicate; the record list is ordered by category first and by
\* listing position within a category.
C19_PierwszyWsrodRekordow ==
    PoPrzebieguNazw =>
        \A o \in Indeksy(metadane_plikow) :
            metadane_plikow[o].flaga = "oryginal" =>
                \A j \in WspolnaNazwa(metadane_plikow, o) :
                    Utworzono(metadane_plikow, j) = Utworzono(metadane_plikow, o)
                        => /\ o <= j
                           /\ j # o => metadane_plikow[j].flaga = "mozliwy duplikat"
                           /\ (metadane_plikow[j].rozszerzenie
                                   = metadane_plikow[o].rozszerzenie)
                              => metadane_plikow[o].sciezka
                                     <= metadane_plikow[j].sciezka

\* C19 witness: after the name pass, two records of one name group created in
\* the same second at different times; the Original is the one that stands
\* first in the record list although its file was listed after the other's
C19_Swiadek ==
    /\ PoPrzebieguNazw
    /\ \E o, j \in Indeksy(metadane_plikow) :
          /\ j \in WspolnaNazwa(metadane_plikow, o)
          /\ metadane_plikow[o].flaga = "oryginal"
          /\ metadane_plikow[j].flaga = "mozliwy duplikat"
          /\ Utworzono(metadane_plikow, j) = Utworzono(metadane_plikow, o)
          /\ pliki_do_przetworzenia[metadane_plikow[j].sciezka].ctime
                 # pliki_do_przetworzenia[metadane_plikow[o].sciezka].ctime
          /\ o < j
          /\ metadane_plikow[o].sciezka > metadane_plikow[j].sciezka

----------------------------------------------------------------------------
(* Order inside a hash group *)

NrDuplikatu(m, j) == m[j].id_grupy[3]

\* C20: after the hash pass, in every hash group no member was created
\* before the Original, and a Duplicate with a smaller number Dk was not
\* created after a Duplicate with a larger one.
C20_KolejnoscWGrupieHash ==
    PoPrzebieguHash =>
        \A i \in Indeksy(metadane_plikow) :
            WGrupieHash(metadane_plikow, i) =>
                LET G == WspolnyHash(metadane_plikow, i)
                    D == {j \in G : metadane_plikow[j].flaga = "duplikat"}
                IN  /\ \A o \in Oryginaly(metadane_plikow, G) :
                           \A j \in G : Utworzono(metadane_plikow, o)
                                            <= Utworzono(metadane_plikow, j)
                    /\ \A j, k \in D :
                           NrDuplikatu(metadane_plikow, j) < NrDuplikatu(metadane_plikow, k)
                               => Utworzono(metadane_plikow, j)
                                      <= Utworzono(metadane_plikow, k)

\* C20 witness: a hash group of three in which the record list runs against
\* creation time: the last record is the oldest and the Original, and the two
\* before it, created in one later second, are D1 and D2 in record order
C20_Swiadek ==
    /\ PoPrzebieguHash
    /\ \E i, j, k \in Indeksy(metadane_plikow) :
          /\ i < j /\ j < k
          /\ WspolnyHash(metadane_plikow, i) = {i, j, k}
          /\ metadane_plikow[i].hash_sha256 # PustyNapis
          /\ Utworzono(metadane_plikow, k) < Utworzono(metadane_plikow, i)
          /\ Utworzono(metadane_plikow, i) = Utworzono(metadane_plikow, j)
          /\ metadane_plikow[k].flaga = "oryginal"
          /\ metadane_plikow[i].flaga = "duplikat"
          /\ metadane_plikow[j].flaga = "duplikat"
          /\ NrDuplikatu(metadane_plikow, i) = 1
          /\ NrDuplikatu(metadane_plikow, j) = 2

----------------------------------------------------------------------------
(* Statistics *)

IleRekordow(m, narzedzie) ==
    Cardinality({i \in Indeksy(m) : m[i].narzedzie_analizy = narzedzie})

\* C21 as stated: after the image-metadata stage, the counter of the
\* specialized tool and the counter of the generic decoder each equal the
\* number of records whose analysis_tool is that backend, and the error
\* counter equals the number of records whose analysis failed.
C21_LicznikiNarzedzi ==
    PoMetadanychGraficznych =>
        /\ stats_narzedzia.oiiotool = IleRekordow(metadane_plikow, "oiiotool")
        /\ stats_narzedzia.PIL = IleRekordow(metadane_plikow, "PIL")
        /\ stats_narzedzia.blad = IleRekordow(metadane_plikow, "blad")

IleZFlaga(m, flaga) == Cardinality({i \in Indeksy(m) : m[i].flaga = flaga})

RECURSIVE SumaLicznikow(_, _)
SumaLicznikow(f, S) ==
    IF S = {} THEN 0
    ELSE LET e == CHOOSE x \in S : TRUE
         IN  f[e] + SumaLicznikow(f, S \ {e})

\* the hash groups of a record list, each as its set of record indices
ZbioryGrupHash(m) == {WspolnyHash(m, i) : i \in {j \in Indeksy(m) : WGrupieHash(m, j)}}

\* C22: the statistics of a result are exact reductions over its record
\* list: the total is the number of records, the Original, Duplicate and
\* PossibleDuplicate counts are the numbers of records with that flag, the
\* graphic and other counts add up to the total, the per-extension counts add
\* up to the total, and the duplicate-group count is the number of hash groups.
C22_StatystykiZRekordow ==
    wyniki.ma_pliki =>
        LET m == wyniki.pliki
            s == wyniki.statystyki[1]
        IN  /\ s.liczba_plikow_ogolem = Len(m)
            /\ s.liczba_oryginalow = IleZFlaga(m, "oryginal")
            /\ s.liczba_duplikatow = IleZFlaga(m, "duplikat")
            /\ s.liczba_mozliwych_duplikatow = IleZFlaga(m, "mozliwy duplikat")
            /\ s.liczba_plikow_graficznych + s.liczba_pozostalych_plikow = Len(m)
            /\ SumaLicznikow(s.rozszerzenia, DOMAIN s.rozszerzenia) = Len(m)
            /\ s.liczba_grup_duplikatow = Cardinality(ZbioryGrupHash(m))

\* C22 witness: a result of three records, graphic and other, with a hash
\* group of two and a record the name pass left as PossibleDuplicate
C22_Swiadek ==
    /\ wyniki.ma_pliki
    /\ Len(wyniki.pliki) = 3
    /\ wyniki.statystyki[1].liczba_grup_duplikatow = 1
    /\ wyniki.statystyki[1].liczba_duplikatow = 1
    /\ wyniki.statystyki[1].liczba_mozliwych_duplikatow = 1
    /\ wyniki.statystyki[1].liczba_pozostalych_plikow >= 1
    /\ wyniki.statystyki[1].liczba_plikow_graficznych >= 1

----------------------------------------------------------------------------
(* Empty input *)

\* every counter of a statistics dict is zero
StatystykiZerowe(s) ==
    /\ s.liczba_plikow_ogolem = 0
    /\ s.liczba_plikow_graficznych = 0
    /\ s.liczba_pozostalych_plikow = 0
    /\ s.liczba_oryginalow = 0
    /\ s.liczba_duplikatow = 0
    /\ s.liczba_mozliwych_duplikatow = 0
    /\ s.liczba_grup_duplikatow = 0
    /\ s.liczba_plikow_specjalistycznych = 0
    /\ \A e \in DOMAIN s.rozszerzenia : s.rozszerzenia[e] = 0
    /\ s.narzedzia_analizy = StatsPoczatkowe

\* C23 as stated: a run over an existing directory without files returns
\* success = true, no records and statistics whose counters are all zero.
C23_PustyKatalog ==
    (pc = "koniec" /\ folder_istnieje /\ pliki_do_przetworzenia = <<>>) =>
        /\ wynik.sukces = "True"
        /\ wynik.ma_pliki
        /\ wynik.pliki = <<>>
        /\ StatystykiZerowe(wynik.statystyki[1])

\* what holds of an empty directory: no stage raises, and the result kept by
\* the worker has no records and zero statistics
C23_PustyKatalogWorker ==
    (pc = "koniec" /\ folder_istnieje /\ pliki_do_przetworzenia = <<>>) =>
        /\ wyniki.ma_pliki
        /\ wyniki.pliki = <<>>
        /\ StatystykiZerowe(wyniki.statystyki[1])
        /\ ~wyniki.wyjatek

----------------------------------------------------------------------------
(* What the later stages leave alone *)

\* the fields of the records that Base Metadata fills, in list order
Rama(m) ==
    [i \in 1..Len(m) |-> <<m[i].sciezka, m[i].rozszerzenie, m[i].data_utworzenia>>]

\* C24: once Base Metadata has run, no step of a later stage adds, removes
\* or reorders records or changes a record's path, extension bucket or
\* creation time, and the result lists the records in that same order.
C24_RamaRekordow ==
    [][PoMetadanychPodstawowych =>
          /\ Rama(metadane_plikow') = Rama(metadane_plikow)
          /\ (wyniki'.ma_pliki => Rama(wyniki'.pliki) = Rama(metadane_plikow))]_vars

\* C24 witness: a finished run of three records in which the later stages
\* filled a hash, a flag and a group id, left one hash empty, and read image
\* dimensions
C24_Swiadek ==
    /\ pc = "koniec"
    /\ Len(wyniki.pliki) = 3
    /\ Rama(wyniki.pliki) = Rama(metadane_plikow)
    /\ \E i, j \in Indeksy(wyniki.pliki) :
           /\ wyniki.pliki[i].flaga = "duplikat"
           /\ wyniki.pliki[i].id_grupy # PustyNapis
           /\ wyniki.pliki[i].szerokosc # None
           /\ wyniki.pliki[j].hash_sha256 = PustyNapis

----------------------------------------------------------------------------
(* Files that are not images *)

\* C25: a record whose file's lower-cased extension is not a graphic
\* extension is in the bucket of other files whatever the letter case of the
\* extension, and at no point of the run does it carry image dimensions, an
\* analysis tool or an analysis error.
C25_PozostaleBezAnalizy ==
    \A i \in Indeksy(metadane_plikow) :
        Rozszerzenie(metadane_plikow, i) \notin GRAFICZNE_ROZSZERZENIA =>
            /\ metadane_plikow[i].rozszerzenie = "pozostale"
            /\ metadane_plikow[i].szerokosc = None
            /\ metadane_plikow[i].wysokosc = None
            /\ metadane_plikow[i].narzedzie_analizy = ""
            /\ metadane_plikow[i].blad_analizy = {}

\* C25 witness: after the image-metadata stage, an upper-case and a
\* lower-case non-graphic file next to an analysed upper-case image
C25_Swiadek ==
    /\ PoMetadanychGraficznych
    /\ \E i, j, k \in Indeksy(metadane_plikow) :
           /\ pliki_do_przetworzenia[metadane_plikow[i].sciezka].ext = ".TXT"
           /\ pliki_do_przetworzenia[metadane_plikow[j].sciezka].ext = ".doc"
           /\ pliki_do_przetworzenia[metadane_plikow[k].sciezka].ext = ".PNG"
           /\ metadane_plikow[k].szerokosc # None
           /\ metadane_plikow[i].szerokosc = None

----------------------------------------------------------------------------
(* Group numbers *)

MaNumerGrupy(m, i) == m[i].id_grupy # PustyNapis

WspolnyNumerGrupy(m, i, j) ==
    /\ MaNumerGrupy(m, i)
    /\ MaNumerGrupy(m, j)
    /\ NrGrupy(m[i].id_grupy) = NrGrupy(m[j].id_grupy)

NumeryWedlugHash(m) ==
    \A i, j \in Indeksy(m) :
        i # j =>
            (WspolnyNumerGrupy(m, i, j)
                <=> /\ m[i].rozszerzenie = m[j].rozszerzenie
                    /\ m[i].hash_sha256 = m[j].hash_sha256
                    /\ m[i].hash_sha256 # PustyNapis)

\* C28: in the result, two records carry the same duplicate group number
\* exactly when they are in the same extension bucket and have the same
\* non-empty content hash; and the hash pass gives a record with an empty
\* hash no group id and leaves its flag as it was.
C28_NumerGrupyWtwHash ==
    /\ [](wyniki.ma_pliki => NumeryWedlugHash(wyniki.pliki))
    /\ [][pc = "dokladne_duplikaty" =>
              \A i \in Indeksy(metadane_plikow) :
                  metadane_plikow[i].hash_sha256 = PustyNapis =>
                      /\ metadane_plikow'[i].id_grupy = PustyNapis
                      /\ metadane_plikow'[i].flaga = metadane_plikow[i].flaga]_vars

\* C28 witness: a result with a hash group of two, and in the same bucket a
\* record with an empty hash that has no group id and keeps the flag of the
\* name pass
C28_Swiadek ==
    /\ wyniki.ma_pliki
    /\ \E i, j, k \in Indeksy(wyniki.pliki) :
           /\ i # j
           /\ WspolnyNumerGrupy(wyniki.pliki, i, j)
           /\ wyniki.pliki[k].hash_sha256 = PustyNapis
           /\ wyniki.pliki[k].rozszerzenie = wyniki.pliki[i].rozszerzenie
           /\ ~MaNumerGrupy(wyniki.pliki, k)
           /\ wyniki.pliki[k].flaga = "mozliwy duplikat"

----------------------------------------------------------------------------
(* What cancels a run *)

\* the callback was called for an event of the stage it answers specially
CallbackZapytany == \E j \in 1..Len(zdarzenia) : zdarzenia[j].etap = callback.etap

\* C29: only a callback that returns exactly False cancels.  With a callback
\* that raises or returns None (or True) for its events, the cancellation
\* flag is never set, a run over an existing root goes through every stage to
\* the closing event, and TextureWorker.przetwarzaj_folder returns the full
\* result.
C29_TylkoFalseAnuluje ==
    /\ [](callback.wynik # "False" =>
             /\ ~canceled
             /\ (pc = "koniec" /\ folder_istnieje) =>
                    /\ wyniki.ma_pliki
                    /\ wyniki.pliki = metadane_plikow
                    /\ EtapyZdarzen = Zakres(Etapy)
                    /\ zdarzenia[Len(zdarzenia)].etap = "zakonczono"
                    /\ (api = "worker" => wynik = wyniki))
    /\ [][(pc = "worker_powrot" /\ callback.wynik # "False") => wynik' = wyniki]_vars

\* C29 witness: finished runs of three files through the worker whose
\* callback was called for the hash stage and returned None, or raised
C29_Swiadek ==
    /\ pc = "koniec"
    /\ api = "worker"
    /\ callback.etap = "hash"
    /\ callback.wynik \in {"None", "wyjatek"}
    /\ CallbackZapytany
    /\ Len(wynik.pliki) = 3

----------------------------------------------------------------------------
(* Asynchronous runs *)

Watki == 1..Len(watki)

\* C27 as stated: at most one processing thread of a TextureWorker is alive
\* at any time, and przetwarzaj_folder_async starts a thread and returns True
\* only when none is alive.
C27_JedenWatek ==
    /\ [](Cardinality({t \in Watki : is_alive(t)}) <= 1)
    /\ [][Len(watki') > Len(watki) => \A t \in Watki : ~is_alive(t)]_vars

\* the notifications of a successful result that thread t has queued
PowiadomieniaOSukcesie(q, t) ==
    {k \in 1..Len(q) : q[k].watek = t /\ q[k].wyniki = "wyniki"}

\* C26 as stated: once anuluj_przetwarzanie has returned True for a run that
\* was alive, the thread of that run runs no further stage, delivers no
\* further progress event and does not hand a successful result to the
\* completion callback.
C26_AnulowanieZatrzymujeWatek ==
    [][\A t \in Watki :
          watki[t].anulowano =>
              /\ watki'[t].etap = watki[t].etap
              /\ Cardinality(PowiadomieniaOSukcesie(kolejka_c4d', t))
                     <= Cardinality(PowiadomieniaOSukcesie(kolejka_c4d, t))]_vars

\* the calls made so far of the completion callback handed to run t
WywolaniaCallbacku(t) ==
    {k \in 1..Len(wywolania_callbacku) : wywolania_callbacku[k].callback = t}

\* C30 as stated: the completion callback handed to a run is called exactly
\* once, with the outcome of that run (the result, or the error when the run
\* raised), and the active flag is False once the threads have finished.
C30_CallbackDokladnieRaz ==
    /\ [](\A k \in 1..Len(wywolania_callbacku) :
             /\ wywolania_callbacku[k].watek = wywolania_callbacku[k].callback
             /\ wywolania_callbacku[k].wyniki
                    = watki[wywolania_callbacku[k].callback].wyniki)
    /\ [](\A t \in Watki : Cardinality(WywolaniaCallbacku(t)) <= 1)
    /\ []((\A t \in Watki : ~is_alive(t)) => ~przetwarzanie_aktywne)
    /\ \A t \in 1..MaxWatkow :
           (t \in Watki /\ watki[t].callback_ukonczenia # 0)
               ~> (WywolaniaCallbacku(t) # {})

====
